---- MODULE Spec2Model ----
(***************************************************************************)
(* Model of kosync.py: a KOReader progress-sync server.  Four request      *)
(* handlers (register, authorize, update_progress, get_progress) and a     *)
(* health probe work on one TinyDB file holding two tables, users and      *)
(* documents.                                                              *)
(*                                                                         *)
(* Two specifications are given.                                           *)
(*   Spec      one request at a time: every handler is one atomic action.  *)
(*   SpecConc  requests served by concurrent worker threads (the handlers  *)
(*             are plain `def` endpoints, which FastAPI runs on a thread   *)
(*             pool, and the module-level db object of line 15 is shared   *)
(*             with no lock).  A handler is split at its accesses to the   *)
(*             shared storage: every TinyDB query reads the whole file,    *)
(*             every TinyDB write is a read of the whole file followed by  *)
(*             a write of the whole file (both tables).  One storage read  *)
(*             and one storage write are taken as atomic steps; document   *)
(*             ids are abstracted to insertion order.  The query cache     *)
(*             TinyDB keeps for search is not modelled: every search       *)
(*             reads the file.                                             *)
(***************************************************************************)
EXTENDS Integers, Sequences, FiniteSets, TLC

\* ------------------------------------------------------------------ bounds
MaxTime == 1
MaxCalls == 2
MaxConcCalls == 2
NumThreads == 2
MaxRaceCalls == 3

\* ------------------------------------------------------------------ values
\* Python's None for an Optional[str] header, body field or path parameter.
None == "<None>"

Usernames == {"u1", "u2"}
Passwords == {"p1", "p2"}
Docs == {"d1", "d2"}

\* What a client may send: absent, empty, or a proper string.
UserArgs == Usernames \cup {None, ""}
PassArgs == Passwords \cup {None, ""}
DocArgs == Docs \cup {None, ""}

\* KosyncDocument bodies without the document field.  progress, device and
\* device_id are opaque strings, percentage an opaque float (written as text).
PayloadA == [progress |-> "pgA", percentage |-> "0.25", device |-> "devA", device_id |-> "DA"]
PayloadB == [progress |-> "pgB", percentage |-> "0.5", device |-> "devB", device_id |-> "DB"]
FullPayloads == {PayloadA, PayloadB}
PartialPayloads ==
    { [PayloadA EXCEPT !.progress = None], [PayloadA EXCEPT !.percentage = None],
      [PayloadA EXCEPT !.device = None], [PayloadA EXCEPT !.device_id = None] }
Payloads == FullPayloads \cup PartialPayloads

\* Values uuid1().hex.upper() may produce.
Uuids == {"R1"}

Threads == 1 .. NumThreads
Times == 0 .. MaxTime

VARIABLES
    db,          \* the storage file: [users |-> Seq, documents |-> Seq]
    now,         \* the server clock, int(time()), as last read
    openReg,     \* strtobool(getenv('OPEN_REGISTRATIONS', 'True'))
    randomDev,   \* strtobool(getenv('RECEIVE_RANDOM_DEVICE_ID', 'False'))
    calls,       \* number of requests issued so far
    registered,  \* history: the (username, password) pairs Register answered 201 for
    acked,       \* history: per (username, document), the last update answered 200
    written,     \* history: the rows update_progress has handed to upsert
    last,        \* Spec: the most recent response, with its request if it was a 2xx,
                 \* and the key of the request before it if that was an update answered 200
    pc,          \* SpecConc: where each worker thread is in its handler
    req,         \* SpecConc: the request a thread serves / served last
    snap,        \* SpecConc: the tables a thread's TinyDB write has read
    tstamp,      \* SpecConc: the handler's local `timestamp`
    resp         \* SpecConc: the response a thread returned last

vars == <<db, now, openReg, randomDev, calls, registered, acked, written, last,
          pc, req, snap, tstamp, resp>>
threadVars == <<pc, req, snap, tstamp, resp>>
seqVars == <<last>>

\* ------------------------------------------------------------------ helpers
NoReq == [op |-> "none"]
NoResp == [status |-> 0]
NoSnap == [users |-> <<>>, documents |-> <<>>]
NoKey == <<>>
NoCall == [req |-> NoReq, resp |-> NoResp, after |-> NoKey]
NoRow == [username |-> None]
NoAck == [status |-> 0, row |-> NoRow, replaced |-> NoRow]
NoBody == [progress |-> None, percentage |-> None, device |-> None, device_id |-> None]

Keys == Usernames \X (Docs \cup {""})

\* Python truthiness of an Optional[str]: None and '' are falsy.
Truthy(x) == x # None /\ x # ""

\* JSONResponse(status_code=..., content=...)
JSONResponse(status, content) == [status |-> status, content |-> content]

Unauthorized == JSONResponse(401, [message |-> "Unauthorized"])
Forbidden == JSONResponse(403, [message |-> "Forbidden"])
ServerError == JSONResponse(500, [text |-> "Unknown server error"])
NotFound == JSONResponse(404, [message |-> "Not found"])
RegistrationClosed ==
    JSONResponse(403, [text |-> "This server is currently not accepting new registrations."])
InvalidRequest == JSONResponse(400, [message |-> "Invalid request"])
DuplicateUser == JSONResponse(409, [text |-> "Username is already registered."])
AuthorizedOK == JSONResponse(200, [authorized |-> "OK"])
Healthy == JSONResponse(200, [message |-> "healthy"])

\* ------------------------------------------------------------------ TinyDB
\* A table is the sequence of its documents in insertion (document id) order.

\* users.contains(QUser.username == u)
UserExists(users, u) == \E i \in DOMAIN users : users[i].username = u

\* Faulty variant of UserMatches: the password is not compared.
UserMatchesAnyPassword(users, u, k) == \E i \in DOMAIN users : users[i].username = u

\* users.contains((QUser.username == u) & (QUser.password == k))
UserMatches(users, u, k) ==
    \E i \in DOMAIN users : users[i].username = u /\ users[i].password = k

\* users.insert({'username': u, 'password': p}): a new document at the end.
InsertUser(users, u, p) == Append(users, [username |-> u, password |-> p])

\* Faulty variant of KeyMatches: the username is left out of the condition.
KeyMatchesDocumentOnly(row, u, d) == row.document = d

\* (QDocument.username == u) & (QDocument.document == d)
KeyMatches(row, u, d) == row.username = u /\ row.document = d

\* The dict update_progress hands to upsert.
ProgressRow(u, d, body, ts) ==
    [username |-> u, document |-> d, progress |-> body.progress,
     percentage |-> body.percentage, device |-> body.device,
     device_id |-> body.device_id, timestamp |-> ts]

\* Faulty variants of UpdateRows: a merge that keeps the stored device, and
\* one that keeps the stored timestamp.
UpdateRowsKeepDevice(table, fields, u, d) ==
    [i \in DOMAIN table |->
        IF table[i].username = u /\ table[i].document = d
        THEN [fields EXCEPT !.device = table[i].device]
        ELSE table[i]]

UpdateRowsKeepTimestamp(table, fields, u, d) ==
    [i \in DOMAIN table |->
        IF table[i].username = u /\ table[i].document = d
        THEN [fields EXCEPT !.timestamp = table[i].timestamp]
        ELSE table[i]]

\* Table.update(fields, cond): dict.update(fields) on every matching document.
UpdateRows(table, fields, u, d) ==
    [i \in DOMAIN table |->
        IF KeyMatches(table[i], u, d)
        THEN [f \in DOMAIN table[i] \cup DOMAIN fields |->
                 IF f \in DOMAIN fields THEN fields[f] ELSE table[i][f]]
        ELSE table[i]]

\* The documents Table.update changed (upsert inserts only when there are none).
UpdatedDocs(table, u, d) == {i \in DOMAIN table : KeyMatches(table[i], u, d)}

\* Table.insert(document)
InsertRow(table, row) == Append(table, row)

\* documents.upsert(row, cond), run with nothing in between.
Upsert(table, row, u, d) ==
    IF UpdatedDocs(table, u, d) # {}
    THEN UpdateRows(table, row, u, d)
    ELSE InsertRow(UpdateRows(table, row, u, d), row)

\* Faulty variant of Search: every user's record of the document matches.
SearchAnyUser(table, u, d) == SelectSeq(table, LAMBDA row : row.document = d)

\* documents.search(cond): the matching documents, in table order.
Search(table, u, d) == SelectSeq(table, LAMBDA row : KeyMatches(row, u, d))

\* ------------------------------------------------------------------ handlers
\* Faulty variant of RegisterResp: no check for an existing username.
RegisterRespNoDuplicateCheck(d, open, u, p) ==
    IF ~open THEN RegistrationClosed
    ELSE IF u = None \/ p = None THEN InvalidRequest
    ELSE JSONResponse(201, [username |-> u])

\* register: the response, and the storage it leaves.
RegisterResp(d, open, u, p) ==
    IF ~open THEN RegistrationClosed
    ELSE IF u = None \/ p = None THEN InvalidRequest
    ELSE IF UserExists(d.users, u) THEN DuplicateUser
    ELSE JSONResponse(201, [username |-> u])

\* Faulty variant of RegisterDb: the insert does not wait for the
\* registration policy.
RegisterDbIgnoringPolicy(d, open, u, p) ==
    IF RegisterResp(d, TRUE, u, p).status = 201
    THEN [d EXCEPT !.users = InsertUser(@, u, p)]
    ELSE d

RegisterDb(d, open, u, p) ==
    IF RegisterResp(d, open, u, p).status = 201
    THEN [d EXCEPT !.users = InsertUser(@, u, p)]
    ELSE d

\* authorize
AuthorizeResp(d, u, k) ==
    IF ~(Truthy(u) /\ Truthy(k)) THEN Unauthorized
    ELSE IF ~UserExists(d.users, u) THEN Forbidden
    ELSE IF ~UserMatches(d.users, u, k) THEN Unauthorized
    ELSE AuthorizedOK

\* None in (document, progress, percentage, device, device_id)
NoneInDocument(doc, body) ==
    None \in {doc, body.progress, body.percentage, body.device, body.device_id}

\* update_progress: the early return taken, NoResp when none is.
UpdateRefusal(d, u, k, doc, body) ==
    IF ~(Truthy(u) /\ Truthy(k)) THEN Unauthorized
    ELSE IF ~UserExists(d.users, u) THEN Forbidden
    ELSE IF ~UserMatches(d.users, u, k) THEN Unauthorized
    ELSE IF NoneInDocument(doc, body) THEN ServerError
    ELSE NoResp

UpdateOK(doc, ts) == JSONResponse(200, [document |-> doc, timestamp |-> ts])

UpdateResp(d, u, k, doc, body, ts) ==
    IF UpdateRefusal(d, u, k, doc, body) # NoResp
    THEN UpdateRefusal(d, u, k, doc, body)
    ELSE UpdateOK(doc, ts)

\* Faulty variant of UpdateDb: the upsert runs before the body is validated.
UpdateDbUnvalidated(d, u, k, doc, body, ts) ==
    IF UpdateRefusal(d, u, k, doc, body) \notin {NoResp, ServerError}
    THEN d
    ELSE [d EXCEPT !.documents = Upsert(@, ProgressRow(u, doc, body, ts), u, doc)]

UpdateDb(d, u, k, doc, body, ts) ==
    IF UpdateRefusal(d, u, k, doc, body) # NoResp
    THEN d
    ELSE [d EXCEPT !.documents = Upsert(@, ProgressRow(u, doc, body, ts), u, doc)]

\* Faulty variant of ProgressResp: 'device' is filled from the device id.
ProgressRespSwappedDevice(u, row, rnd, uuid) ==
    JSONResponse(200,
        [username |-> u, document |-> row.document, progress |-> row.progress,
         percentage |-> row.percentage, device |-> row.device_id,
         device_id |-> IF rnd THEN uuid ELSE row.device_id,
         timestamp |-> row.timestamp])

\* Faulty variant of ProgressResp: the stored device id is always returned.
ProgressRespNoSubstitution(u, row, rnd, uuid) ==
    JSONResponse(200,
        [username |-> u, document |-> row.document, progress |-> row.progress,
         percentage |-> row.percentage, device |-> row.device,
         device_id |-> row.device_id, timestamp |-> row.timestamp])

\* get_progress: the response built from the first search result.
ProgressResp(u, row, rnd, uuid) ==
    JSONResponse(200,
        [username |-> u, document |-> row.document, progress |-> row.progress,
         percentage |-> row.percentage, device |-> row.device,
         device_id |-> IF rnd THEN uuid ELSE row.device_id,
         timestamp |-> row.timestamp])

\* get_progress after the credential checks.
LookupResp(d, rnd, u, doc, uuid) ==
    LET result == Search(d.documents, u, doc)
    IN  IF result = <<>> THEN NotFound ELSE ProgressResp(u, result[1], rnd, uuid)

GetResp(d, rnd, u, k, doc, uuid) ==
    IF ~(Truthy(u) /\ Truthy(k)) THEN Unauthorized
    ELSE IF doc = None THEN ServerError
    ELSE IF ~UserExists(d.users, u) THEN Forbidden
    ELSE IF ~UserMatches(d.users, u, k) THEN Unauthorized
    ELSE LookupResp(d, rnd, u, doc, uuid)

\* ------------------------------------------------------------------ requests
Request(op, u, k, doc, body) ==
    [op |-> op, username |-> u, password |-> k, document |-> doc, body |-> body]

\* History kept when a request is answered.
Registered(reg, rq, rs) ==
    IF rq.op = "register" /\ rs.status = 201
    THEN reg \cup {<<rq.username, rq.password>>}
    ELSE reg

Acked(ack, rq, rs) ==
    IF rq.op = "update" /\ rs.status = 200
    THEN [ack EXCEPT ![<<rq.username, rq.document>>] =
            [status |-> 200,
             row |-> ProgressRow(rq.username, rq.document, rq.body, rs.content.timestamp),
             replaced |-> @.row]]
    ELSE ack

\* ------------------------------------------------------------------ Init
\* db = TinyDB('data/db.json') opens the file an earlier run left: a new
\* deployment starts on an empty file, a restarted one on what was stored.
\* OneUserDb is the file after Register(u1, p1) and UpdateProgress of (u1, d2),
\* TwoUsersDb the file after Register(u2, p2) and UpdateProgress of (u2, d1)
\* on top of that.
EmptyDb == [users |-> <<>>, documents |-> <<>>]
OneUserDb ==
    [users |-> <<[username |-> "u1", password |-> "p1"]>>,
     documents |-> <<ProgressRow("u1", "d2", PayloadA, 0)>>]
TwoUsersDb ==
    [users |-> Append(OneUserDb.users, [username |-> "u2", password |-> "p2"]),
     documents |-> Append(OneUserDb.documents, ProgressRow("u2", "d1", PayloadB, 0))]
StoredDbs == {EmptyDb, OneUserDb, TwoUsersDb}

Init ==
    /\ db \in StoredDbs
    /\ now = 0
    /\ openReg \in BOOLEAN
    /\ randomDev \in BOOLEAN
    /\ calls = 0
    /\ registered = {<<db.users[i].username, db.users[i].password>> : i \in DOMAIN db.users}
    /\ acked = [key \in Keys |->
                  IF \E i \in DOMAIN db.documents : KeyMatches(db.documents[i], key[1], key[2])
                  THEN [status |-> 200, row |-> Search(db.documents, key[1], key[2])[1],
                        replaced |-> NoRow]
                  ELSE NoAck]
    /\ written = {db.documents[i] : i \in DOMAIN db.documents}
    /\ last = NoCall
    /\ pc = [t \in Threads |-> "idle"]
    /\ req = [t \in Threads |-> NoReq]
    /\ snap = [t \in Threads |-> NoSnap]
    /\ tstamp = [t \in Threads |-> 0]
    /\ resp = [t \in Threads |-> NoResp]

\* ------------------------------------------------------------------ Spec
\* One request at a time: the handler runs from the request to its response.
Success(rs) == rs.status \in {200, 201}

UpdatedKey(call) ==
    IF call.req.op = "update" /\ Success(call.resp)
    THEN <<call.req.username, call.req.password, call.req.document>>
    ELSE NoKey

Answered(rq, rs) ==
    /\ calls < MaxCalls
    /\ calls' = calls + 1
    /\ last' = [req |-> IF Success(rs) THEN rq ELSE [op |-> rq.op],
                resp |-> rs,
                after |-> UpdatedKey(last)]
    /\ registered' = Registered(registered, rq, rs)
    /\ acked' = Acked(acked, rq, rs)
    /\ UNCHANGED <<openReg, randomDev, threadVars>>

Register(u, p) ==
    /\ db' = RegisterDb(db, openReg, u, p)
    /\ Answered(Request("register", u, p, None, NoBody), RegisterResp(db, openReg, u, p))
    /\ UNCHANGED <<now, written>>

Authorize(u, k) ==
    /\ Answered(Request("authorize", u, k, None, NoBody), AuthorizeResp(db, u, k))
    /\ UNCHANGED <<db, now, written>>

\* time() at line 133: the clock has not gone back since it was last read, and
\* has advanced by any amount.
ClockReadings == now .. MaxTime

\* The request is issued when the clock shows `at`; line 133 reads it later.
UpdateProgress(u, k, doc, body, at) ==
    /\ at \in ClockReadings
    /\ \E ts \in at .. MaxTime :
        LET refused == UpdateRefusal(db, u, k, doc, body) # NoResp
        IN  /\ Answered(Request("update", u, k, doc, body),
                        UpdateResp(db, u, k, doc, body, ts))
            /\ db' = UpdateDb(db, u, k, doc, body, ts)
            /\ now' = IF refused THEN now ELSE ts
            /\ written' = IF refused THEN written
                          ELSE written \cup {ProgressRow(u, doc, body, ts)}

\* Faulty variant of GetProgress: the device id returned is written back to
\* the record.
GetProgressStoringDeviceId(u, k, doc) ==
    \E uuid \in Uuids :
        LET rs == GetResp(db, randomDev, u, k, doc, uuid)
        IN  /\ Answered(Request("get", u, k, doc, NoBody), rs)
            /\ db' = IF rs.status # 200 THEN db
                     ELSE [db EXCEPT !.documents =
                              [i \in DOMAIN @ |->
                                  IF KeyMatches(@[i], u, doc)
                                  THEN [@[i] EXCEPT !.device_id = rs.content.device_id]
                                  ELSE @[i]]]
            /\ UNCHANGED <<now, written>>

GetProgress(u, k, doc) ==
    \E uuid \in Uuids :
        /\ Answered(Request("get", u, k, doc, NoBody),
                    GetResp(db, randomDev, u, k, doc, uuid))
        /\ UNCHANGED <<db, now, written>>

GetHealthstatus ==
    /\ Answered(Request("health", None, None, None, NoBody), Healthy)
    /\ UNCHANGED <<db, now, written>>

\* The requests enumerated.  update_progress and get_progress return at their
\* first check, before they look at the document or the body, when a header
\* is missing or empty: such requests are enumerated with one document and
\* one body (every other choice gives the same step).
DocsSent(u, k) == IF Truthy(u) /\ Truthy(k) THEN DocArgs ELSE {None}
BodiesSent(u, k) == IF Truthy(u) /\ Truthy(k) THEN Payloads ELSE {NoBody}
\* A request that is refused never reads the clock.
TimesSent(u, k, doc, body) ==
    IF UpdateRefusal(db, u, k, doc, body) # NoResp THEN {MaxTime} ELSE ClockReadings

Next ==
    \/ \E u \in UserArgs, p \in PassArgs : Register(u, p)
    \/ \E u \in UserArgs, k \in PassArgs : Authorize(u, k)
    \/ \E u \in UserArgs, k \in PassArgs :
          \E doc \in DocsSent(u, k), body \in BodiesSent(u, k) :
              \E at \in TimesSent(u, k, doc, body) : UpdateProgress(u, k, doc, body, at)
    \/ \E u \in UserArgs, k \in PassArgs :
          \E doc \in DocsSent(u, k) : GetProgress(u, k, doc)
    \/ GetHealthstatus

Spec == Init /\ [][Next]_vars

\* ------------------------------------------------------------------ SpecConc
\* Requests served by worker threads.  A step is what a handler does up to and
\* including its next access to the shared storage.
\* A request goes to the first idle worker.
Begin(t) ==
    /\ pc[t] = "idle"
    /\ \A o \in Threads : o < t => pc[o] # "idle"
    /\ calls < MaxConcCalls
    /\ calls' = calls + 1

\* The handler goes on to `label`, serving rq.
Goto(t, label, rq) ==
    /\ pc' = [pc EXCEPT ![t] = label]
    /\ req' = [req EXCEPT ![t] = rq]
    /\ UNCHANGED <<registered, acked, resp>>

\* The handler returns rs for rq.
Respond(t, rq, rs) ==
    /\ pc' = [pc EXCEPT ![t] = "idle"]
    /\ req' = [req EXCEPT ![t] = IF Success(rs) THEN rq ELSE [op |-> rq.op]]
    /\ resp' = [resp EXCEPT ![t] = rs]
    /\ registered' = Registered(registered, rq, rs)
    /\ acked' = Acked(acked, rq, rs)

\* A step that leaves the storage, the clock and the thread's locals alone.
ReadOnly == UNCHANGED <<db, now, openReg, randomDev, seqVars, snap, tstamp, written>>

\* register, lines 42-47
RegisterBegin(t, u, p) ==
    LET rq == Request("register", u, p, None, NoBody)
    IN  /\ Begin(t)
        /\ IF ~openReg THEN Respond(t, rq, RegistrationClosed)
           ELSE IF u = None \/ p = None THEN Respond(t, rq, InvalidRequest)
           ELSE Goto(t, "register_contains", rq)
        /\ ReadOnly

\* register, line 52
RegisterContains(t) ==
    /\ pc[t] = "register_contains"
    /\ IF UserExists(db.users, req[t].username)
       THEN Respond(t, req[t], DuplicateUser)
       ELSE Goto(t, "register_insert", req[t])
    /\ ReadOnly /\ UNCHANGED calls

\* register, line 56: users.insert reads the tables ...
RegisterInsertRead(t) ==
    /\ pc[t] = "register_insert"
    /\ snap' = [snap EXCEPT ![t] = db]
    /\ Goto(t, "register_write", req[t])
    /\ UNCHANGED <<db, now, openReg, randomDev, seqVars, tstamp, calls, written>>

\* ... and writes them back with the new user; line 57
RegisterInsertWrite(t) ==
    /\ pc[t] = "register_write"
    /\ db' = [snap[t] EXCEPT !.users = InsertUser(@, req[t].username, req[t].password)]
    /\ snap' = [snap EXCEPT ![t] = NoSnap]
    /\ Respond(t, req[t], JSONResponse(201, [username |-> req[t].username]))
    /\ UNCHANGED <<now, openReg, randomDev, seqVars, tstamp, calls, written>>

\* authorize, line 76
AuthorizeBegin(t, u, k) ==
    LET rq == Request("authorize", u, k, None, NoBody)
    IN  /\ Begin(t)
        /\ IF ~(Truthy(u) /\ Truthy(k)) THEN Respond(t, rq, Unauthorized)
           ELSE Goto(t, "authorize_contains", rq)
        /\ ReadOnly

\* authorize, line 82
AuthorizeContains(t) ==
    /\ pc[t] = "authorize_contains"
    /\ IF ~UserExists(db.users, req[t].username)
       THEN Respond(t, req[t], Forbidden)
       ELSE Goto(t, "authorize_match", req[t])
    /\ ReadOnly /\ UNCHANGED calls

\* authorize, lines 86-90
AuthorizeMatch(t) ==
    /\ pc[t] = "authorize_match"
    /\ IF ~UserMatches(db.users, req[t].username, req[t].password)
       THEN Respond(t, req[t], Unauthorized)
       ELSE Respond(t, req[t], AuthorizedOK)
    /\ ReadOnly /\ UNCHANGED calls

\* update_progress, line 108
UpdateBegin(t, u, k, doc, body) ==
    LET rq == Request("update", u, k, doc, body)
    IN  /\ Begin(t)
        /\ IF ~(Truthy(u) /\ Truthy(k)) THEN Respond(t, rq, Unauthorized)
           ELSE Goto(t, "update_contains", rq)
        /\ ReadOnly

\* update_progress, line 115
UpdateContains(t) ==
    /\ pc[t] = "update_contains"
    /\ IF ~UserExists(db.users, req[t].username)
       THEN Respond(t, req[t], Forbidden)
       ELSE Goto(t, "update_match", req[t])
    /\ ReadOnly /\ UNCHANGED calls

\* update_progress, lines 119-130
UpdateMatch(t) ==
    /\ pc[t] = "update_match"
    /\ IF ~UserMatches(db.users, req[t].username, req[t].password)
       THEN Respond(t, req[t], Unauthorized)
       ELSE IF NoneInDocument(req[t].document, req[t].body)
       THEN Respond(t, req[t], ServerError)
       ELSE Goto(t, "update_time", req[t])
    /\ ReadOnly /\ UNCHANGED calls

\* update_progress, line 133
UpdateTime(t) ==
    /\ pc[t] = "update_time"
    /\ \E ts \in ClockReadings :
          /\ now' = ts
          /\ tstamp' = [tstamp EXCEPT ![t] = ts]
          /\ written' = written \cup
                {ProgressRow(req[t].username, req[t].document, req[t].body, ts)}
    /\ Goto(t, "update_upsert", req[t])
    /\ UNCHANGED <<db, openReg, randomDev, seqVars, snap, calls>>

\* update_progress, line 134: upsert first runs Table.update, which reads
\* the tables ...
UpdateUpsertRead(t) ==
    /\ pc[t] = "update_upsert"
    /\ snap' = [snap EXCEPT ![t] = db]
    /\ Goto(t, "update_write", req[t])
    /\ UNCHANGED <<db, now, openReg, randomDev, seqVars, tstamp, calls, written>>

\* ... and writes them back with the matching documents changed.  With a
\* document changed upsert is done (lines 146-149), else it inserts.
UpdateUpsertWrite(t) ==
    LET u == req[t].username
        doc == req[t].document
        row == ProgressRow(u, doc, req[t].body, tstamp[t])
    IN  /\ pc[t] = "update_write"
        /\ db' = [snap[t] EXCEPT !.documents = UpdateRows(@, row, u, doc)]
        /\ snap' = [snap EXCEPT ![t] = NoSnap]
        /\ IF UpdatedDocs(snap[t].documents, u, doc) # {}
           THEN /\ Respond(t, req[t], UpdateOK(doc, tstamp[t]))
                /\ tstamp' = [tstamp EXCEPT ![t] = 0]
           ELSE /\ Goto(t, "update_insert", req[t])
                /\ UNCHANGED tstamp
        /\ UNCHANGED <<now, openReg, randomDev, seqVars, calls, written>>

\* upsert's Table.insert reads the tables ...
UpdateInsertRead(t) ==
    /\ pc[t] = "update_insert"
    /\ snap' = [snap EXCEPT ![t] = db]
    /\ Goto(t, "update_insert_write", req[t])
    /\ UNCHANGED <<db, now, openReg, randomDev, seqVars, tstamp, calls, written>>

\* ... and writes them back with the new document; lines 146-149
UpdateInsertWrite(t) ==
    LET u == req[t].username
        doc == req[t].document
        row == ProgressRow(u, doc, req[t].body, tstamp[t])
    IN  /\ pc[t] = "update_insert_write"
        /\ db' = [snap[t] EXCEPT !.documents = InsertRow(@, row)]
        /\ snap' = [snap EXCEPT ![t] = NoSnap]
        /\ tstamp' = [tstamp EXCEPT ![t] = 0]
        /\ Respond(t, req[t], UpdateOK(doc, tstamp[t]))
        /\ UNCHANGED <<now, openReg, randomDev, seqVars, calls, written>>

\* get_progress, lines 170-175
GetBegin(t, u, k, doc) ==
    LET rq == Request("get", u, k, doc, NoBody)
    IN  /\ Begin(t)
        /\ IF ~(Truthy(u) /\ Truthy(k)) THEN Respond(t, rq, Unauthorized)
           ELSE IF doc = None THEN Respond(t, rq, ServerError)
           ELSE Goto(t, "get_contains", rq)
        /\ ReadOnly

\* get_progress, line 181
GetContains(t) ==
    /\ pc[t] = "get_contains"
    /\ IF ~UserExists(db.users, req[t].username)
       THEN Respond(t, req[t], Forbidden)
       ELSE Goto(t, "get_match", req[t])
    /\ ReadOnly /\ UNCHANGED calls

\* get_progress, line 185
GetMatch(t) ==
    /\ pc[t] = "get_match"
    /\ IF ~UserMatches(db.users, req[t].username, req[t].password)
       THEN Respond(t, req[t], Unauthorized)
       ELSE Goto(t, "get_search", req[t])
    /\ ReadOnly /\ UNCHANGED calls

\* get_progress, lines 189-213
GetSearch(t) ==
    /\ pc[t] = "get_search"
    /\ \E uuid \in Uuids :
          Respond(t, req[t], LookupResp(db, randomDev, req[t].username, req[t].document, uuid))
    /\ ReadOnly /\ UNCHANGED calls

\* get_healthstatus
HealthBegin(t) ==
    /\ Begin(t)
    /\ Respond(t, Request("health", None, None, None, NoBody), Healthy)
    /\ ReadOnly

\* The requests enumerated are those with both headers and a complete body.
NextConc ==
    \/ \E t \in Threads, u \in Usernames, p \in Passwords : RegisterBegin(t, u, p)
    \/ \E t \in Threads : RegisterContains(t)
    \/ \E t \in Threads : RegisterInsertRead(t)
    \/ \E t \in Threads : RegisterInsertWrite(t)
    \/ \E t \in Threads, u \in Usernames, k \in Passwords : AuthorizeBegin(t, u, k)
    \/ \E t \in Threads : AuthorizeContains(t)
    \/ \E t \in Threads : AuthorizeMatch(t)
    \/ \E t \in Threads, u \in Usernames, k \in Passwords :
          \E doc \in Docs, body \in FullPayloads : UpdateBegin(t, u, k, doc, body)
    \/ \E t \in Threads : UpdateContains(t)
    \/ \E t \in Threads : UpdateMatch(t)
    \/ \E t \in Threads : UpdateTime(t)
    \/ \E t \in Threads : UpdateUpsertRead(t)
    \/ \E t \in Threads : UpdateUpsertWrite(t)
    \/ \E t \in Threads : UpdateInsertRead(t)
    \/ \E t \in Threads : UpdateInsertWrite(t)
    \/ \E t \in Threads, u \in Usernames, k \in Passwords :
          \E doc \in Docs : GetBegin(t, u, k, doc)
    \/ \E t \in Threads : GetContains(t)
    \/ \E t \in Threads : GetMatch(t)
    \/ \E t \in Threads : GetSearch(t)
    \/ \E t \in Threads : HealthBegin(t)

\* A restarted server in the default configuration: registrations open, device
\* ids returned as stored.
InitConc == Init /\ db = OneUserDb /\ openReg /\ ~randomDev

SpecConc == InitConc /\ [][NextConc]_vars


\* ------------------------------------------------------------------ SpecRace
\* The writing requests alone, register and update_progress, served by the
\* worker threads: a longer run of fewer kinds of request.
BeginRace(t) ==
    /\ pc[t] = "idle"
    /\ \A o \in Threads : o < t => pc[o] # "idle"
    /\ calls < MaxRaceCalls
    /\ calls' = calls + 1

\* register, lines 42-47
RegisterBeginRace(t, u, p) ==
    LET rq == Request("register", u, p, None, NoBody)
    IN  /\ BeginRace(t)
        /\ IF ~openReg THEN Respond(t, rq, RegistrationClosed)
           ELSE IF u = None \/ p = None THEN Respond(t, rq, InvalidRequest)
           ELSE Goto(t, "register_contains", rq)
        /\ ReadOnly

\* update_progress, line 108
UpdateBeginRace(t, u, k, doc, body) ==
    LET rq == Request("update", u, k, doc, body)
    IN  /\ BeginRace(t)
        /\ IF ~(Truthy(u) /\ Truthy(k)) THEN Respond(t, rq, Unauthorized)
           ELSE Goto(t, "update_contains", rq)
        /\ ReadOnly

NextRace ==
    \/ \E t \in Threads, u \in Usernames, p \in Passwords : RegisterBeginRace(t, u, p)
    \/ \E t \in Threads : RegisterContains(t)
    \/ \E t \in Threads : RegisterInsertRead(t)
    \/ \E t \in Threads : RegisterInsertWrite(t)
    \/ \E t \in Threads, u \in Usernames, k \in Passwords :
          \E doc \in Docs, body \in FullPayloads : UpdateBeginRace(t, u, k, doc, body)
    \/ \E t \in Threads : UpdateContains(t)
    \/ \E t \in Threads : UpdateMatch(t)
    \/ \E t \in Threads : UpdateTime(t)
    \/ \E t \in Threads : UpdateUpsertRead(t)
    \/ \E t \in Threads : UpdateUpsertWrite(t)
    \/ \E t \in Threads : UpdateInsertRead(t)
    \/ \E t \in Threads : UpdateInsertWrite(t)

SpecRace == InitConc /\ [][NextRace]_vars

\* ------------------------------------------------------------------ claims
UserRecords == {db.users[i] : i \in DOMAIN db.users}
ProgressRecords == {db.documents[i] : i \in DOMAIN db.documents}
AllBodies == Payloads \cup {NoBody}

\* The Auth Guard outcome the specification gives for an identity claim.
AuthOutcome(u, k) ==
    IF u \in {None, ""} \/ k \in {None, ""} THEN Unauthorized
    ELSE IF ~\E r \in UserRecords : r.username = u THEN Forbidden
    ELSE IF ~\E r \in UserRecords : r.username = u /\ r.password = k THEN Unauthorized
    ELSE AuthorizedOK

\* The step is a request answered in Spec.
Step == calls' = calls + 1

\* C1: Authorize answers 401 for a missing or empty username or secret, else
\* 403 when no record has the username, else 401 when no record has the
\* (username, secret) pair, else 200: one outcome for every store and claim.
C1_AuthorizeOutcomes ==
    [][\A u \in UserArgs, k \in PassArgs :
          Authorize(u, k) => last'.resp = AuthOutcome(u, k)]_vars

C1_Witness ==
    /\ last.req.op = "authorize"
    /\ last.resp = AuthorizedOK
    /\ Cardinality(UserRecords) > 1

\* C2: Authorize(u, s) is Authorized exactly when an earlier Register(u, s)
\* succeeded with that username and password.
C2_AuthorizedIffRegistered ==
    [][\A u \in UserArgs, k \in PassArgs :
          Authorize(u, k) => ((last'.resp = AuthorizedOK) <=> (<<u, k>> \in registered))]_vars

\* C3: Register with a username that is already registered.
UsernameRegistered(u) == \E r \in UserRecords : r.username = u

\* The store is as it was, with one record for u, holding the password of the
\* one registration of u that succeeded.
StillOneRecord(u) ==
    /\ db' = db
    /\ Cardinality({i \in DOMAIN db'.users : db'.users[i].username = u}) = 1
    /\ Cardinality({pair \in registered' : pair[1] = u}) = 1
    /\ \A r \in {db'.users[i] : i \in DOMAIN db'.users} :
          r.username = u => <<u, r.password>> \in registered'

\* C3 as stated: whatever else holds of the request, it is answered 409
\* DuplicateUser and the store stays as it was.
C3_DuplicateAlways ==
    [][\A u \in UserArgs, p \in PassArgs :
          UsernameRegistered(u) /\ Register(u, p)
              => last'.resp = DuplicateUser /\ StillOneRecord(u)]_vars

\* C3 as amended: with registrations open and a password in the request, it
\* is answered 409 DuplicateUser and the store stays as it was.
C3_DuplicateRegister ==
    [][\A u \in UserArgs, p \in PassArgs :
          UsernameRegistered(u) /\ openReg /\ p # None /\ Register(u, p)
              => last'.resp = DuplicateUser /\ StillOneRecord(u)]_vars

C3_Witness ==
    /\ last.req.op = "register"
    /\ last.resp = DuplicateUser
    /\ calls = 2
    /\ db = OneUserDb

\* C4: no two user records share a username, and of the Register requests
\* served at the same time for one username at most one is answered 201.
C4_UniqueUsernames ==
    /\ \A i, j \in DOMAIN db.users : db.users[i].username = db.users[j].username => i = j
    /\ \A t1, t2 \in Threads :
          /\ t1 # t2
          /\ pc[t1] = "idle" /\ req[t1].op = "register" /\ resp[t1].status = 201
          /\ pc[t2] = "idle" /\ req[t2].op = "register" /\ resp[t2].status = 201
          => req[t1].username # req[t2].username

\* C5: a valid update is answered 200 with a timestamp not before the time it
\* was issued; with substitution disabled, GetProgress right after it, with the
\* same identity and document, returns what was sent and that timestamp.
ValidBody(doc, body) ==
    /\ doc # None /\ body.progress # None /\ body.percentage # None
    /\ body.device # None /\ body.device_id # None

\* An update that was refused was not a valid one.
C5_RefusedStep ==
    Step /\ last'.req.op = "update" /\ last'.resp.status # 200 =>
        \A u \in Usernames, k \in Passwords :
            AuthOutcome(u, k) = AuthorizedOK =>
                \A doc \in DocArgs, body \in AllBodies :
                    ValidBody(doc, body) =>
                        \A at \in Times : ~UpdateProgress(u, k, doc, body, at)

\* An update that was accepted answers its document, and a timestamp not
\* before any time it can have been issued at.
C5_AcceptedStep ==
    Step /\ last'.req.op = "update" /\ last'.resp.status = 200 =>
        /\ last'.resp.content.document = last'.req.document
        /\ \A at \in Times :
              UpdateProgress(last'.req.username, last'.req.password,
                             last'.req.document, last'.req.body, at)
                  => last'.resp.content.timestamp >= at

C5_GetStep ==
    /\ ~randomDev
    /\ last.req.op = "update"
    /\ last.resp.status = 200
    /\ GetProgress(last.req.username, last.req.password, last.req.document)
    => last'.resp =
          JSONResponse(200,
              [username |-> last.req.username, document |-> last.req.document,
               progress |-> last.req.body.progress,
               percentage |-> last.req.body.percentage,
               device |-> last.req.body.device,
               device_id |-> last.req.body.device_id,
               timestamp |-> last.resp.content.timestamp])

C5_RoundTrip == [][C5_RefusedStep /\ C5_AcceptedStep /\ C5_GetStep]_vars

C5_Witness ==
    /\ ~randomDev
    /\ last.req.op = "get"
    /\ last.resp.status = 200
    /\ last.after = <<last.req.username, last.req.password, last.req.document>>
    /\ last.resp.content.timestamp > 0

\* C6: after two successful updates of one key with different payloads,
\* GetProgress returns the fields of the second.
BodyOf(row) ==
    [progress |-> row.progress, percentage |-> row.percentage,
     device |-> row.device, device_id |-> row.device_id]

TwiceUpdated(key) ==
    /\ key \in Keys
    /\ acked[key].status = 200
    /\ acked[key].replaced # NoRow
    /\ BodyOf(acked[key].replaced) # BodyOf(acked[key].row)

\* C6 as stated: every field returned is the second payload's.
C6_SecondPayloadReturned ==
    [][\A u \in Usernames, k \in Passwords, doc \in DocArgs :
          /\ TwiceUpdated(<<u, doc>>)
          /\ AuthOutcome(u, k) = AuthorizedOK
          /\ GetProgress(u, k, doc)
          => /\ last'.resp.status = 200
             /\ BodyOf(last'.resp.content) = BodyOf(acked[<<u, doc>>].row)
             /\ last'.resp.content.timestamp = acked[<<u, doc>>].row.timestamp]_vars

\* C6 as amended: every field returned is the second payload's, the device_id
\* when device-identity substitution is disabled; none is the first's alone.
C6_LastWriteWins ==
    [][\A u \in Usernames, k \in Passwords, doc \in DocArgs :
          /\ TwiceUpdated(<<u, doc>>)
          /\ AuthOutcome(u, k) = AuthorizedOK
          /\ GetProgress(u, k, doc)
          => LET got == last'.resp.content
                 second == acked[<<u, doc>>].row
                 first == acked[<<u, doc>>].replaced
             IN  /\ last'.resp.status = 200
                 /\ got.progress = second.progress
                 /\ got.percentage = second.percentage
                 /\ got.device = second.device
                 /\ got.timestamp = second.timestamp
                 /\ ~randomDev => got.device_id = second.device_id
                 /\ \A f \in {"progress", "percentage", "device", "device_id"} :
                       first[f] # second[f] => got[f] # first[f]]_vars

C6_Witness ==
    /\ last.req.op = "get"
    /\ last.resp.status = 200
    /\ TwiceUpdated(<<last.req.username, last.req.document>>)
    /\ last.after = <<last.req.username, last.req.password, last.req.document>>
    /\ BodyOf(last.resp.content) = PayloadB

\* C7: a successful update of (u, d) leaves the records of every other key,
\* and the user records, as they were.
OtherRows(table, u, d) ==
    SelectSeq(table, LAMBDA row : ~(row.username = u /\ row.document = d))

C7_CrossKeyIsolation ==
    [][Step /\ last'.req.op = "update" /\ last'.resp.status = 200
          => /\ db'.users = db.users
             /\ OtherRows(db'.documents, last'.req.username, last'.req.document)
                  = OtherRows(db.documents, last'.req.username, last'.req.document)]_vars

C7_Witness ==
    /\ last.req.op = "update"
    /\ last.resp.status = 200
    /\ \E r \in ProgressRecords :
          r.username = last.req.username /\ r.document # last.req.document
    /\ \E r \in ProgressRecords :
          r.username # last.req.username /\ r.document = last.req.document

\* C8: when two requests on different keys have run at the same time and both
\* were answered with success, the store holds what both wrote.
Stored(t) ==
    IF req[t].op = "update"
    THEN ProgressRow(req[t].username, req[t].document, req[t].body,
                     resp[t].content.timestamp) \in ProgressRecords
    ELSE [username |-> req[t].username, password |-> req[t].password] \in UserRecords

Wrote(t) ==
    /\ pc[t] = "idle"
    /\ \/ req[t].op = "update" /\ resp[t].status = 200
       \/ req[t].op = "register" /\ resp[t].status = 201

C8_NoLostWrite ==
    \A t1, t2 \in Threads :
        /\ t1 # t2
        /\ calls = 2
        /\ Wrote(t1) /\ Wrote(t2)
        /\ req[t1].op = "update"
        /\ (req[t2].op = "update" =>
              <<req[t1].username, req[t1].document>> # <<req[t2].username, req[t2].document>>)
        => Stored(t1) /\ Stored(t2)

\* C9: what a successful GetProgress returns is, in all its fields, the row of
\* one UpdateProgress call on that key.
C9_NoTornRead ==
    \A t \in Threads :
        pc[t] = "idle" /\ req[t].op = "get" /\ resp[t].status = 200
            => \E w \in written :
                  /\ w.username = req[t].username
                  /\ w.document = req[t].document
                  /\ resp[t].content =
                        [username |-> w.username, document |-> w.document,
                         progress |-> w.progress, percentage |-> w.percentage,
                         device |-> w.device, device_id |-> w.device_id,
                         timestamp |-> w.timestamp]

C9_Witness ==
    /\ pc[1] = "idle" /\ req[1].op = "update" /\ resp[1].status = 200
    /\ pc[2] = "idle" /\ req[2].op = "get" /\ resp[2].status = 200
    /\ req[2].username = req[1].username /\ req[2].document = req[1].document
    /\ BodyOf(resp[2].content) = req[1].body
    /\ resp[2].content.timestamp = resp[1].content.timestamp
    /\ \E w \in written : w.document = req[1].document /\ BodyOf(w) # req[1].body

\* C10: an UpdateProgress or Register that is not answered with success
\* leaves both tables as they were and is answered with an error status.
C10_FailuresChangeNothing ==
    [][Step /\ last'.req.op \in {"update", "register"} /\ ~Success(last'.resp)
          => /\ db' = db
             /\ last'.req.op = "update" => last'.resp.status \in {401, 403, 500}
             /\ last'.req.op = "register" => last'.resp.status \in {400, 403, 409}]_vars

C10_Witness ==
    /\ last.req.op = "update"
    /\ last.resp = ServerError
    /\ db.documents # <<>>
    /\ calls = 2

\* C11: GetProgress with an identity the Auth Guard does not find Authorized
\* answers the Auth Guard's outcome, whatever the document is, absent included.
C11_AuthGuardFirst ==
    [][Step /\ last'.req.op = "get" =>
          \A u \in UserArgs, k \in PassArgs :
              AuthOutcome(u, k) # AuthorizedOK =>
                  \A doc \in DocArgs :
                      GetProgress(u, k, doc) => last'.resp = AuthOutcome(u, k)]_vars

\* C12: UpdateProgress with an Authorized identity and a document that is
\* absent or empty, or a body field that is absent, answers 500 and writes no
\* progress record; with another identity it answers the Auth Guard's outcome.
IncompleteUpdate(doc, body) ==
    \/ doc \in {None, ""}
    \/ body.progress = None \/ body.percentage = None
    \/ body.device = None \/ body.device_id = None

C12_IncompleteDocument ==
    [][Step /\ last'.req.op = "update" =>
          \A u \in UserArgs, k \in PassArgs, doc \in DocArgs, body \in AllBodies :
              IncompleteUpdate(doc, body) =>
                  \A at \in Times :
                      UpdateProgress(u, k, doc, body, at) =>
                          IF AuthOutcome(u, k) = AuthorizedOK
                          THEN last'.resp = ServerError /\ db'.documents = db.documents
                          ELSE last'.resp = AuthOutcome(u, k)]_vars

\* C13: GetProgress by an Authorized user u for document d answers 404 exactly
\* when no UpdateProgress by u for d has succeeded; what it returns with
\* success is a record written under the username u.
EverUpdated(u, doc) == acked[<<u, doc>>].status = 200

C13_OwnRecordOrNotFound ==
    [][Step /\ last'.req.op = "get" =>
          \A u \in Usernames, k \in Passwords :
              AuthOutcome(u, k) = AuthorizedOK =>
                  \A doc \in DocArgs \ {None} :
                      GetProgress(u, k, doc) =>
                          /\ (last'.resp = NotFound) <=> ~EverUpdated(u, doc)
                          /\ last'.resp.status \in {200, 404}
                          /\ last'.resp.status = 200 =>
                                /\ last'.resp.content.username = u
                                /\ \E w \in written :
                                      /\ w.username = u
                                      /\ w.document = doc
                                      /\ last'.resp.content.document = doc
                                      /\ last'.resp.content.progress = w.progress
                                      /\ last'.resp.content.percentage = w.percentage
                                      /\ last'.resp.content.device = w.device
                                      /\ last'.resp.content.timestamp = w.timestamp]_vars

C13_Witness ==
    /\ last.req.op = "get"
    /\ last.resp.status = 200
    /\ last.after = <<last.req.username, last.req.password, last.req.document>>
    /\ \E r \in ProgressRecords :
          /\ r.username # last.req.username
          /\ r.document = last.req.document
          /\ r.progress # last.resp.content.progress

\* C14: a successful GetProgress returns the stored record under the caller's
\* username; its device_id is the stored one when RECEIVE_RANDOM_DEVICE_ID is
\* disabled, and a generated one, not the stored one, when it is enabled.
C14_DeviceIdSubstitution ==
    [][Step /\ last'.req.op = "get" /\ last'.resp.status = 200 =>
          \E r \in ProgressRecords :
              /\ r.username = last'.req.username
              /\ r.document = last'.req.document
              /\ last'.resp.content.username = r.username
              /\ last'.resp.content.document = r.document
              /\ last'.resp.content.progress = r.progress
              /\ last'.resp.content.percentage = r.percentage
              /\ last'.resp.content.device = r.device
              /\ last'.resp.content.timestamp = r.timestamp
              /\ ~randomDev => last'.resp.content.device_id = r.device_id
              /\ randomDev => /\ last'.resp.content.device_id \in Uuids
                              /\ last'.resp.content.device_id # r.device_id]_vars

C14_Witness ==
    /\ randomDev
    /\ last.req.op = "get"
    /\ last.resp.status = 200
    /\ last.resp.content.device_id \in Uuids
    /\ \E r \in ProgressRecords :
          /\ r.username = last.req.username
          /\ r.document = last.req.document
          /\ r.device_id \in {"DA", "DB"}

\* C15: in every reachable state, requests served at the same time included,
\* the documents table holds at most one record per (username, document).
C15_OneRecordPerKey ==
    \A i, j \in DOMAIN db.documents :
        /\ db.documents[i].username = db.documents[j].username
        /\ db.documents[i].document = db.documents[j].document
        => i = j

\* C16: in every reachable state the username of every progress record is the
\* username of a user record.
C16_ReferentialIntegrity ==
    \A r \in ProgressRecords : \E usr \in UserRecords : usr.username = r.username

\* C17: Authorize, GetProgress and the health probe leave both tables as they
\* were, whatever they answer and whether device ids are substituted or not.
C17_ReadOnly ==
    [][Step /\ last'.req.op \in {"authorize", "get", "health"} => db' = db]_vars

C17_Witness ==
    /\ randomDev
    /\ calls = 2
    /\ last.req.op = "get"
    /\ last.resp.status = 200
    /\ last.after = <<last.req.username, last.req.password, last.req.document>>
    /\ last.resp.content.device_id \notin {r.device_id : r \in ProgressRecords}

\* C18: Register answers 403 whenever registrations are closed; else 400 when
\* the username or the password is absent; else 409 when the username is
\* registered; else 201 with the username, and one user record is added.
C18_RegisterOrder ==
    [][Step /\ last'.req.op = "register" =>
          \A u \in UserArgs, p \in PassArgs :
              Register(u, p) =>
                  IF ~openReg
                  THEN last'.resp = RegistrationClosed /\ db' = db
                  ELSE IF u = None \/ p = None
                  THEN last'.resp = InvalidRequest /\ db' = db
                  ELSE IF UsernameRegistered(u)
                  THEN last'.resp = DuplicateUser /\ db' = db
                  ELSE /\ last'.resp = JSONResponse(201, [username |-> u])
                       /\ db'.documents = db.documents
                       /\ Len(db'.users) = Len(db.users) + 1
                       /\ SubSeq(db'.users, 1, Len(db.users)) = db.users
                       /\ db'.users[Len(db'.users)] = [username |-> u, password |-> p]]_vars

C18_Witness ==
    /\ last.req.op = "register"
    /\ last.resp.status = 201
    /\ calls = 2
    /\ Len(db.users) >= 2
    /\ db.users[Len(db.users)].username = last.resp.content.username

\* C19: the timestamp stored for a (username, document) key never decreases,
\* UpdateProgress requests on the key served at the same time included.
\* Every request served so far was an UpdateProgress of the key, or was
\* refused (a refused request keeps its operation alone).
OnlyUpdatesOf(key) ==
    \A t \in Threads :
        \/ DOMAIN req'[t] = {"op"}
        \/ /\ req'[t].op = "update"
           /\ <<req'[t].username, req'[t].document>> = key

C19_TimestampNeverDecreases ==
    [][\A key \in Keys :
          OnlyUpdatesOf(key) =>
              LET old == Search(db.documents, key[1], key[2])
                  new == Search(db'.documents, key[1], key[2])
              IN  old # <<>> /\ new # <<>> => new[1].timestamp >= old[1].timestamp]_vars

====
